---- MODULE Spec2Model ----
(***************************************************************************)
(* Model of napari's scale bar visual (VispyScaleBarVisual) and of the     *)
(* Plugins menu (PluginsMenu).                                             *)
(*                                                                         *)
(* Numbers.  The scale bar computes with real numbers (Python floats and   *)
(* pint quantities).  A number is modelled exactly as a record             *)
(*     [n |-> numerator, d |-> denominator, x |-> decimal exponent]        *)
(* standing for (n / d) * 10^x, kept in a canonical form (d > 0, d coprime *)
(* to 10, n not divisible by 10, gcd(n, d) = 1; zero is [0, 1, 0]), so     *)
(* that two numbers are equal exactly when their records are equal.  The   *)
(* decimal exponent lets a zoom of 10^33 or 10^-33 be represented without  *)
(* large integers.  Rounding of binary floating point is not modelled.     *)
(***************************************************************************)
EXTENDS Integers, Sequences, FiniteSets, TLC

Abs(i) == IF i < 0 THEN -i ELSE i

Sign(i) == IF i < 0 THEN -1 ELSE IF i = 0 THEN 0 ELSE 1

RECURSIVE Gcd(_, _)
Gcd(a, b) == IF b = 0 THEN a ELSE Gcd(b, a % b)

RECURSIVE Pow10(_)
Pow10(k) == IF k <= 0 THEN 1 ELSE 10 * Pow10(k - 1)

\* number of decimal digits of a positive integer
RECURSIVE Digits(_)
Digits(i) == IF i < 10 THEN 1 ELSE 1 + Digits(i \div 10)

\* move the factors 10 of the numerator into the exponent
RECURSIVE StripNum(_, _, _)
StripNum(n, d, x) ==
    IF n % 10 = 0 THEN StripNum(n \div 10, d, x + 1) ELSE [n |-> n, d |-> d, x |-> x]

\* make the denominator coprime to 10: each factor 10, 2 or 5 of the
\* denominator becomes a decimal place
RECURSIVE StripDen(_, _, _)
StripDen(n, d, x) ==
    IF d % 10 = 0 THEN StripDen(n, d \div 10, x - 1)
    ELSE IF d % 2 = 0 THEN StripDen(n * 5, d \div 2, x - 1)
    ELSE IF d % 5 = 0 THEN StripDen(n * 2, d \div 5, x - 1)
    ELSE [n |-> n, d |-> d, x |-> x]

Zero == [n |-> 0, d |-> 1, x |-> 0]

\* the canonical record of (n / d) * 10^x, for d # 0
Num(n, d, x) ==
    IF n = 0 THEN Zero
    ELSE LET g == Gcd(Abs(n), Abs(d))
             s == StripNum((Sign(d) * n) \div g, Abs(d) \div g, x)
         IN  StripDen(s.n, s.d, s.x)

\* the canonical record of an integer
NInt(i) == IF i = 0 THEN Zero ELSE StripNum(i, 1, 0)

\* a * 10^k
Shift(a, k) == IF a.n = 0 THEN a ELSE [a EXCEPT !.x = @ + k]

\* a * b, of canonical records: after the cross cancellation the numerator
\* and the denominator are coprime, and the denominator is coprime to 10
NMul(a, b) ==
    IF a.n = 0 \/ b.n = 0 THEN Zero
    ELSE LET g1 == IF b.d = 1 THEN 1 ELSE Gcd(Abs(a.n), b.d)
             g2 == IF a.d = 1 THEN 1 ELSE Gcd(Abs(b.n), a.d)
         IN  StripNum((a.n \div g1) * (b.n \div g2), (a.d \div g2) * (b.d \div g1),
                      a.x + b.x)

\* a / b, for b # 0
NDiv(a, b) == NMul(a, StripDen(Sign(b.n) * b.d, Abs(b.n), -b.x))

NNeg(a) == [a EXCEPT !.n = -a.n]

NAbs(a) == [a EXCEPT !.n = Abs(a.n)]

\* Rough decimal order of a positive number: a lies strictly between
\* 10^(Order(a) - 1) and 10^(Order(a) + 1).
Order(a) == Digits(a.n) - Digits(a.d) + a.x

\* a < b for positive numbers.  The orders decide when they are two or more
\* apart; otherwise the cross products are compared as integers.
PosLess(a, b) ==
    IF Order(a) + 2 <= Order(b) THEN TRUE
    ELSE IF Order(b) + 2 <= Order(a) THEN FALSE
    ELSE LET m == IF a.x < b.x THEN a.x ELSE b.x
         IN  a.n * b.d * Pow10(a.x - m) < b.n * a.d * Pow10(b.x - m)

\* a < b
NLess(a, b) ==
    CASE a.n <= 0 /\ b.n > 0 -> TRUE
      [] a.n < 0 /\ b.n = 0 -> TRUE
      [] a.n >= 0 /\ b.n <= 0 -> FALSE
      [] a.n > 0 /\ b.n > 0 -> PosLess(a, b)
      [] OTHER -> PosLess(NNeg(b), NNeg(a))

NLeq(a, b) == a = b \/ NLess(a, b)

\* floor(log10(a)) for a positive number
FloorLog10(a) ==
    LET t == Order(a)
    IN  IF ~PosLess(a, [n |-> 1, d |-> 1, x |-> t]) THEN t ELSE t - 1


(***************************************************************************)
(* The scale bar visual: src/napari/_vispy/vispy_scale_bar_visual.py       *)
(***************************************************************************)

\* Number of fine zoom steps of 1/5000 that the camera can take from zoom 1.
MaxZoomStep == 2

\* Cap on the number of entries of the top-level Plugins menu.
MaxEntries == 5

VARIABLES
    viewer,        \* the viewer model: scale_bar.visible, .unit, .position,
                   \* .colored, .ticks, and camera.zoom
    vis,           \* the fields of the VispyScaleBarVisual instance
    ever_visible,  \* history: the scale bar has been visible at some time
    calc,          \* the last two applications of _calculate_best_length
    plugins,       \* what plugin_manager.iter_widgets() yields
    menu           \* the actions of the Plugins menu, in order

vars == <<viewer, vis, ever_visible, calc, plugins, menu>>

None == "None"

\* PREFERRED_VALUES of napari.utils._units, as given in the specification
PREFERRED_VALUES == <<1, 2, 5, 10, 20, 50, 100, 200, 500>>

\* self._target_length
target_length == 150

\* The decimal exponents of pint's SI prefixes (yocto .. yotta), sorted, with
\* 0 for no prefix: the SI_powers list of pint's to_compact.
SI_powers ==
    <<-24, -21, -18, -15, -12, -9, -6, -3, -2, -1, 0, 1, 2, 3, 6, 9, 12, 15, 18, 21, 24>>

\* the values of viewer.scale_bar.unit considered: no unit, pixels and two
\* prefixed lengths
UnitStrings == {None, "px", "um", "cm"}

\* unit_registry(unit): pint parses the unit string into the quantity 1 unit;
\* no unit gives the dimensionless quantity 1.  A unit is its base unit and
\* the decimal exponent of its prefix.
ParseUnit(unit) ==
    [mag |-> NInt(1),
     units |-> CASE unit = None -> [base |-> "", exp |-> 0]
                 [] unit = "px" -> [base |-> "px", exp |-> 0]
                 [] unit = "um" -> [base |-> "m", exp |-> -6]
                 [] unit = "cm" -> [base |-> "m", exp |-> -2]]

\* bisect.bisect_left(a, x) for a sorted sequence a of integers and a number
\* x: the number of elements less than x (a 0-based index)
bisect_left(a, x) ==
    Cardinality({i \in DOMAIN a : NLess([n |-> a[i], d |-> 1, x |-> 0], x)})

\* pint's Quantity.to_compact(): a dimensionless or zero quantity is returned
\* as it is; otherwise the magnitude in the base unit decides the power of
\* 1000, and the prefix is the first SI power not below it (the last one when
\* there is none).
to_compact(q) ==
    IF q.units.base = "" \/ q.mag.n = 0 THEN q
    ELSE LET magnitude == Shift(q.mag, q.units.exp)
             power == (FloorLog10(NAbs(magnitude)) \div 3) * 3
             index == Cardinality({i \in DOMAIN SI_powers : SI_powers[i] < power})
             k == SI_powers[IF index >= Len(SI_powers) THEN Len(SI_powers) ELSE index + 1]
         IN  [mag |-> Shift(magnitude, -k), units |-> [base |-> q.units.base, exp |-> k]]

\* lines 130-134 with the guard "if index > 0" left out: Python's index -1
\* is the last element
SnapIndexWrapsAround(magnitude) ==
    LET index == bisect_left(PREFERRED_VALUES, magnitude)
    IN  IF index > 0 THEN index - 1 ELSE Len(PREFERRED_VALUES) - 1

\* lines 130-134: the 0-based index into PREFERRED_VALUES
SnapIndex(magnitude) ==
    LET index == bisect_left(PREFERRED_VALUES, magnitude)
    IN  IF index > 0 THEN index - 1 ELSE index

\* lines 138-140 with the conversion factor left out
NewLengthWithoutFactor(new_value, factor, quantity) == NDiv(new_value, quantity.mag)

\* lines 138-140: the world length of the snapped value, in the user's unit
NewLength(new_value, factor, quantity) == NDiv(NMul(new_value, factor), quantity.mag)

\* line 141 with the compact magnitude kept instead of the preferred value
NewQuantityNotSnapped(new_value, new_quantity) == new_quantity

\* line 141: new_value * new_quantity.units
NewQuantity(new_value, new_quantity) == [mag |-> new_value, units |-> new_quantity.units]

\* _calculate_best_length(desired_length), with self._quantity = quantity
_calculate_best_length(quantity, desired_length) ==
    LET current_quantity == [quantity EXCEPT !.mag = NMul(@, desired_length)]
        new_quantity == to_compact(current_quantity)
        factor == NDiv(current_quantity.mag, new_quantity.mag)
        new_value == NInt(PREFERRED_VALUES[SnapIndex(new_quantity.mag) + 1])
    IN  [new_length |-> NewLength(new_value, factor, quantity),
         new_quantity |-> NewQuantity(new_value, new_quantity)]

\* Python's None for self._quantity
NoQuantity == [mag |-> NInt(0), units |-> [base |-> None, exp |-> 0]]

\* Position: the corners of the canvas
Positions == {"top_left", "top_right", "bottom_right", "bottom_left"}

\* lines 169-174, 228-244: the direction in which the bar is drawn
PositionSign(position) == IF position \in {"top_right", "bottom_right"} THEN -1 ELSE 1

\* node.canvas.size, the size of the canvas in pixels
canvas_size == <<800, 600>>

\* line 225
x_bar_offset == 10

y_bar_offset == 30

\* The values camera.zoom takes: fine steps from 1, the zoom 3/2 and one a
\* fine step below it, some coarse steps, a very large and a very small zoom,
\* and the two kinds of invalid zoom.
ValidZooms ==
    {Num(5000 + i, 5000, 0) : i \in 0..MaxZoomStep}
        \cup {Num(3, 2, 0), Num(14997, 10000, 0), NInt(75), NInt(300), Num(1, 10, 0),
              Num(1, 1, 33), Num(1, 1, -33)}

InvalidZooms == {NInt(0), NInt(-1)}

ZoomValues == ValidZooms \cup InvalidZooms

\* line 151: abs(np.log10(old) - np.log10(new)) < 1e-4.  The logarithm of a
\* number that is not positive is nan or -inf and the comparison is false.
\* For positive numbers the test is max/min < 10^(1e-4), that is
\* min / (max - min) > 1 / (10^(1e-4) - 1) = 4342.44...
ScaleUnchanged(old, new) ==
    IF old.n <= 0 \/ new.n <= 0 THEN FALSE
    ELSE LET r == NDiv(old, new)
         IN  IF Order(r) >= 2 \/ Order(r) <= -2 THEN FALSE
             ELSE LET N == r.n * Pow10(r.x)
                      D == r.d * Pow10(-r.x)
                      lo == IF N < D THEN N ELSE D
                      diff == Abs(N - D)
                  IN  \/ diff = 0
                      \/ /\ diff > 0
                         /\ \/ lo \div diff > 4342
                            \/ /\ lo \div diff = 4342
                               /\ (lo % diff) * 100 > 44 * diff

\* the unit_registry property (lines 81-96): the registry is instantiated by
\* get_unit_registry() on first use; registry_calls counts these calls
unit_registry(s) ==
    IF s.unit_reg = None
    THEN [s EXCEPT !.unit_reg = "UnitRegistry", !.registry_calls = @ + 1]
    ELSE s

\* lines 151-153 with "self._scale = scale" moved before the test
NotRedrawnButStored(s, scale) == [s EXCEPT !.scale = scale]

\* lines 151-152: the scale has not changed, nothing is redrawn nor stored
NotRedrawn(s, scale) == s

\* _on_zoom_change(event, force).  1 / zoom raises ZeroDivisionError for a
\* zoom of 0, after which nothing of the handler has run.
_on_zoom_change(v, s, force) ==
    IF ~v.visible THEN s
    ELSE IF v.zoom.n = 0 THEN [s EXCEPT !.outcome = "ZeroDivisionError"]
    ELSE LET scale == NDiv(NInt(1), v.zoom)
         IN  IF ScaleUnchanged(s.scale, scale) /\ ~force THEN NotRedrawn(s, scale)
             ELSE IF s.quantity = NoQuantity
             THEN [s EXCEPT !.scale = scale, !.outcome = "TypeError"]
             ELSE LET target_world_pixels == NMul(scale, NInt(target_length))
                      best == _calculate_best_length(s.quantity, target_world_pixels)
                      target_canvas_pixels_rounded == NDiv(best.new_length, scale)
                      sign == PositionSign(v.position)
                  IN  [s EXCEPT !.scale = scale,
                                !.node_scale = NMul(NInt(sign), target_canvas_pixels_rounded),
                                !.text = best.new_quantity]

\* line 100 with the test of the visibility left out
DimensionChangeNeverIgnored(v, s) == FALSE

\* line 100: a unit change is ignored while the bar is hidden and the registry
\* has not been instantiated
DimensionChangeIgnored(v, s) == ~v.visible /\ s.unit_reg = None

\* _on_dimension_change(event)
_on_dimension_change(v, s) ==
    IF DimensionChangeIgnored(v, s) THEN s
    ELSE LET r == unit_registry(s)
         IN  _on_zoom_change(v, [r EXCEPT !.quantity = ParseUnit(v.unit)], TRUE)

\* _on_data_change(event)
_on_data_change(v, s) ==
    [s EXCEPT !.color = IF v.colored THEN "default_color" ELSE "inverse_of_background",
              !.node_data = IF v.ticks THEN 6 ELSE 2]

\* _on_visible_change(event)
_on_visible_change(v, s) ==
    LET s1 == [s EXCEPT !.node_visible = v.visible, !.text_visible = v.visible]
        s2 == IF v.visible /\ (s1.quantity = NoQuantity
                                 \/ s1.quantity.units # ParseUnit(v.unit).units)
              THEN [unit_registry(s1) EXCEPT !.quantity = ParseUnit(v.unit)]
              ELSE s1
    IN  _on_zoom_change(v, s2, v.visible)

\* _on_position_change(event)
_on_position_change(v, s) ==
    LET bar_transform ==
            CASE v.position = "top_left" -> <<x_bar_offset, 10>>
              [] v.position = "top_right" -> <<canvas_size[1] - x_bar_offset, 10>>
              [] v.position = "bottom_right" ->
                    <<canvas_size[1] - x_bar_offset, canvas_size[2] - y_bar_offset>>
              [] v.position = "bottom_left" -> <<x_bar_offset, canvas_size[2] - 30>>
    IN  [s EXCEPT !.node_translate = bar_transform,
                  !.node_scale = NMul(NInt(PositionSign(v.position)), NAbs(@))]

\* the fields set by lines 21-50 of __init__.  text is the quantity that the
\* label shows ("1px" at first, then the '~' format of new_dim); unit_reg is
\* None or the registry; registry_calls is a history field, the number of
\* calls of get_unit_registry(); outcome is how the last handler ended.
NewVisual ==
    [scale |-> NInt(1), quantity |-> NoQuantity, unit_reg |-> None, registry_calls |-> 0,
     node_scale |-> NInt(1), node_translate |-> <<0, 0>>, node_visible |-> TRUE,
     text_visible |-> TRUE, text |-> [mag |-> NInt(1), units |-> [base |-> "px", exp |-> 0]],
     node_data |-> 0, color |-> None, outcome |-> "ok"]

\* __init__, lines 76-79: the four handlers run once
Construct(v) ==
    _on_position_change(v,
        _on_dimension_change(v, _on_data_change(v, _on_visible_change(v, NewVisual))))

Viewers ==
    [visible : BOOLEAN, unit : UnitStrings, zoom : ZoomValues, position : Positions,
     colored : BOOLEAN, ticks : BOOLEAN]

\* the last two applications of _calculate_best_length: the unit and the
\* canvas-to-world scale given, and the result
Application(unit, scale) ==
    [unit |-> unit, scale |-> scale,
     best |-> _calculate_best_length(ParseUnit(unit), NMul(scale, NInt(target_length)))]

CalcIdle == [prev |-> Application(None, NInt(1)), cur |-> Application(None, NInt(1))]

(***************************************************************************)
(* The Plugins menu: src/napari/_qt/menus/plugins_menu.py                  *)
(*                                                                         *)
(* A text is a sequence of tokens (a plugin name, a widget name, ": "), so *)
(* that "event.value in action.text()" is the occurrence of a token.  An   *)
(* entry of a menu is a record: its text and, for a submenu, the texts of  *)
(* the submenu's actions.                                                  *)
(***************************************************************************)
PluginNames == <<"A", "B">>

HookTypes == {"dock", "func"}

\* the widgets one plugin can provide for one hook type
WidgetLists == {<<>>, <<"w1">>, <<"w1", "w2">>}

\* menu_item_template.format(plugin_name, wdg_name), the template being '{}: {}'
menu_item_template(plugin_name, wdg_name) == <<plugin_name, ": ", wdg_name>>

Action(text) == [text |-> text, is_menu |-> FALSE, actions |-> <<>>]

Texts(actions) == {actions[i].text : i \in DOMAIN actions}

\* plugin_manager.iter_widgets(): the dock widgets of every plugin, then the
\* function widgets, as pairs (hook_type, (plugin_name, widgets)); a plugin
\* without widgets of a hook type has no pair for it
RECURSIVE IterPlugins(_, _, _)
IterPlugins(reg, h, i) ==
    IF i > Len(PluginNames) THEN <<>>
    ELSE LET plugin_name == PluginNames[i]
             widgets == reg[h][plugin_name]
         IN  (IF widgets = <<>> THEN <<>>
              ELSE <<[hook_type |-> h, plugin_name |-> plugin_name, widgets |-> widgets]>>)
                 \o IterPlugins(reg, h, i + 1)

iter_widgets(reg) == IterPlugins(reg, "dock", 1) \o IterPlugins(reg, "func", 1)

\* lines 69-72 and 109-112: the action is added unless an action of the menu
\* has its text
AddAction(actions, text) ==
    IF text \in Texts(actions) THEN actions ELSE Append(actions, Action(text))

\* lines 54-73 and 94-113 for a plugin with one widget: the action goes to
\* the Plugins menu itself
RECURSIVE AddToSelf(_, _, _, _)
AddToSelf(m, plugin_name, widgets, i) ==
    IF i > Len(widgets) THEN m
    ELSE AddToSelf(AddAction(m, menu_item_template(plugin_name, widgets[i])),
                   plugin_name, widgets, i + 1)

\* lines 54-73 and 94-113 for a plugin with several widgets: the actions go
\* to the new submenu
RECURSIVE AddToSubmenu(_, _, _)
AddToSubmenu(actions, widgets, i) ==
    IF i > Len(widgets) THEN actions
    ELSE AddToSubmenu(AddAction(actions, <<widgets[i]>>), widgets, i + 1)

\* lines 47-73 and 87-113: the body of the loop over iter_widgets()
AddPluginWidgets(m, plugin_name, widgets) ==
    IF Len(widgets) > 1
    THEN Append(m, [text |-> <<plugin_name>>, is_menu |-> TRUE,
                    actions |-> AddToSubmenu(<<>>, widgets, 1)])
    ELSE AddToSelf(m, plugin_name, widgets, 1)

\* the loop over iter_widgets(), for the pairs whose plugin is in names
RECURSIVE AddAll(_, _, _, _)
AddAll(m, pairs, names, i) ==
    IF i > Len(pairs) THEN m
    ELSE AddAll(IF pairs[i].plugin_name \in names
                THEN AddPluginWidgets(m, pairs[i].plugin_name, pairs[i].widgets)
                ELSE m,
                pairs, names, i + 1)

AllPlugins == {PluginNames[i] : i \in DOMAIN PluginNames}

\* _build(): the menu is cleared, gets its two fixed actions and a separator
\* and then the widgets of every plugin
_build(reg) ==
    AddAll(<<Action(<<"Install/Uninstall Plugins...">>), Action(<<"Plugin Errors...">>),
             Action(<<>>)>>,
           iter_widgets(reg), AllPlugins, 1)

\* _add_registered_widget(event): the widgets of the plugin event.value
_add_registered_widget(m, reg, value) == AddAll(m, iter_widgets(reg), {value}, 1)

\* _remove_unregistered_widget(event): every action of the Plugins menu whose
\* text contains event.value is removed
_remove_unregistered_widget(m, value) ==
    SelectSeq(m, LAMBDA a : \A i \in DOMAIN a.text : a.text[i] # value)

Registries == [HookTypes -> [AllPlugins -> WidgetLists]]

NoPlugins == [h \in HookTypes |-> [p \in AllPlugins |-> <<>>]]

InitScaleBar ==
    /\ viewer \in Viewers
    /\ vis = Construct(viewer)
    /\ vis.outcome = "ok"
    /\ ever_visible = viewer.visible

Init ==
    /\ InitScaleBar
    /\ calc = CalcIdle
    /\ plugins = NoPlugins
    /\ menu = _build(NoPlugins)

\* an event of the viewer reaches its handler with the new value set
Handle(v, s) ==
    /\ viewer' = v
    /\ vis' = s
    /\ ever_visible' = (ever_visible \/ v.visible)
    /\ UNCHANGED <<calc, plugins, menu>>

Ready == [vis EXCEPT !.outcome = "ok"]

\* viewer.scale_bar.visible = b
SetVisible ==
    \E b \in BOOLEAN :
        /\ b # viewer.visible
        /\ LET v == [viewer EXCEPT !.visible = b]
           IN  Handle(v, _on_visible_change(v, Ready))

\* viewer.scale_bar.unit = u
SetUnit ==
    \E u \in UnitStrings :
        /\ u # viewer.unit
        /\ LET v == [viewer EXCEPT !.unit = u]
           IN  Handle(v, _on_dimension_change(v, Ready))

\* viewer.camera.zoom = z
SetZoom ==
    \E z \in ZoomValues :
        /\ z # viewer.zoom
        /\ LET v == [viewer EXCEPT !.zoom = z]
           IN  Handle(v, _on_zoom_change(v, Ready, FALSE))

\* viewer.scale_bar.position = p
SetPosition ==
    \E p \in Positions :
        /\ p # viewer.position
        /\ LET v == [viewer EXCEPT !.position = p]
           IN  Handle(v, _on_position_change(v, Ready))

\* viewer.scale_bar.colored = b
SetColored ==
    \E b \in BOOLEAN :
        /\ b # viewer.colored
        /\ LET v == [viewer EXCEPT !.colored = b]
           IN  Handle(v, _on_data_change(v, Ready))

\* viewer.scale_bar.ticks = b
SetTicks ==
    \E b \in BOOLEAN :
        /\ b # viewer.ticks
        /\ LET v == [viewer EXCEPT !.ticks = b]
           IN  Handle(v, _on_data_change(v, Ready))

Next == SetVisible \/ SetUnit \/ SetZoom \/ SetPosition \/ SetColored \/ SetTicks

Spec == Init /\ [][Next]_vars

\* the viewer as napari creates it
DefaultViewer ==
    [visible |-> FALSE, unit |-> None, zoom |-> NInt(1), position |-> "bottom_right",
     colored |-> FALSE, ticks |-> FALSE]

ScaleBarIdle ==
    /\ viewer = DefaultViewer
    /\ vis = Construct(DefaultViewer)
    /\ ever_visible = FALSE

(***************************************************************************)
(* _calculate_best_length as a function of the unit and of the             *)
(* canvas-to-world scale, applied to one valid input after another.        *)
(***************************************************************************)
ValidScales == {NDiv(NInt(1), z) : z \in ValidZooms}

InitCalc ==
    /\ ScaleBarIdle
    /\ \E u \in UnitStrings, s \in ValidScales :
           calc = [prev |-> Application(u, s), cur |-> Application(u, s)]
    /\ plugins = NoPlugins
    /\ menu = _build(NoPlugins)

Calculate ==
    /\ \E u \in UnitStrings, s \in ValidScales :
           calc' = [prev |-> calc.cur, cur |-> Application(u, s)]
    /\ UNCHANGED <<viewer, vis, ever_visible, plugins, menu>>

SpecCalc == InitCalc /\ [][Calculate]_vars

(***************************************************************************)
(* The Plugins menu under plugin events.                                   *)
(***************************************************************************)
\* PluginsMenu.__init__: the widgets discovered so far are in the registry
InitMenu ==
    /\ ScaleBarIdle
    /\ calc = CalcIdle
    /\ plugins \in Registries
    /\ menu = _build(plugins)

\* the plugin manager learns the widgets of a plugin for a hook type
Discover ==
    /\ \E h \in HookTypes, p \in AllPlugins, ws \in WidgetLists \ {<<>>} :
           /\ plugins[h][p] = <<>>
           /\ plugins' = [plugins EXCEPT ![h][p] = ws]
    /\ UNCHANGED <<viewer, vis, ever_visible, calc, menu>>

\* plugin_manager.events.registered(value=p)
Registered ==
    /\ \E p \in AllPlugins :
           /\ menu' = _add_registered_widget(menu, plugins, p)
           /\ Len(menu') <= MaxEntries
    /\ UNCHANGED <<viewer, vis, ever_visible, calc, plugins>>

\* the plugin p is unregistered: the plugin manager forgets its widgets and
\* emits plugin_manager.events.unregistered(value=p)
Unregistered ==
    /\ \E p \in AllPlugins :
           /\ plugins' = [h \in HookTypes |-> [plugins[h] EXCEPT ![p] = <<>>]]
           /\ menu' = _remove_unregistered_widget(menu, p)
    /\ UNCHANGED <<viewer, vis, ever_visible, calc>>

\* plugin_manager.events.disabled(value=p)
Disabled ==
    /\ \E p \in AllPlugins : menu' = _remove_unregistered_widget(menu, p)
    /\ UNCHANGED <<viewer, vis, ever_visible, calc, plugins>>

NextMenu == Discover \/ Registered \/ Unregistered \/ Disabled

SpecMenu == InitMenu /\ [][NextMenu]_vars

(***************************************************************************)
(* Properties                                                              *)
(***************************************************************************)
PreferredSet == {NInt(PREFERRED_VALUES[i]) : i \in DOMAIN PREFERRED_VALUES}

\* a quantity of a prefixed unit as a number of its base unit
InBaseUnit(q) == Shift(q.mag, q.units.exp)

\* C1: the magnitude of the label of the scale bar is always one of the
\* preferred values, whatever zoom, unit and visibility events have happened.
C1_LabelIsPreferred == vis.text.mag \in PreferredSet

\* C1: the bar is visible in micrometers at zoom 300, its registry has been
\* instantiated, and it is labelled 200 nm
C1_Witness ==
    /\ viewer.visible /\ viewer.unit = "um" /\ viewer.zoom = NInt(300)
    /\ vis.scale = Num(1, 300, 0)
    /\ vis.registry_calls = 1
    /\ vis.text = [mag |-> NInt(200), units |-> [base |-> "m", exp |-> -9]]

\* the largest preferred value that is <= m, and the smallest preferred value
\* when there is none
LargestPreferredLeq(m) ==
    LET below == {p \in PreferredSet : NLeq(p, m)}
    IN  IF below = {} THEN NInt(PREFERRED_VALUES[1])
        ELSE CHOOSE p \in below : \A r \in below : NLeq(r, p)

\* the compact magnitude of the last application of _calculate_best_length
CompactMagnitude(app) ==
    to_compact([ParseUnit(app.unit) EXCEPT
                    !.mag = NMul(@, NMul(app.scale, NInt(target_length)))]).mag

\* C2: the preferred value selected by _calculate_best_length is the largest
\* one that is <= the compact magnitude, and the smallest preferred value when
\* the magnitude is below all of them.
C2_SnapsToLargestLeq ==
    calc.cur.best.new_quantity.mag = LargestPreferredLeq(CompactMagnitude(calc.cur))

\* C3: a zoom event with a zoom <= 0 while the bar is visible ends in an error
\* and leaves the bar length, the label and the stored scale as they were.
C3_InvalidZoomRejected ==
    [][(viewer.visible /\ viewer'.visible /\ viewer'.zoom # viewer.zoom
            /\ viewer'.zoom.n <= 0)
        => (/\ vis'.outcome # "ok"
            /\ vis'.node_scale = vis.node_scale
            /\ vis'.text = vis.text
            /\ vis'.scale = vis.scale)]_vars

\* C4: for one unit, a larger canvas-to-world scale never gives a smaller
\* display quantity, the two compared in the base unit.
C4_Monotone ==
    (calc.prev.unit = calc.cur.unit /\ NLeq(calc.prev.scale, calc.cur.scale))
        => NLeq(InBaseUnit(calc.prev.best.new_quantity),
                InBaseUnit(calc.cur.best.new_quantity))

\* C4: two applications in micrometers, the first labelled in nm and the
\* second, at a larger scale, in um
C4_Witness ==
    /\ calc.prev.unit = "um" /\ calc.cur.unit = "um"
    /\ NLess(calc.prev.scale, calc.cur.scale)
    /\ calc.prev.best.new_quantity.units.exp = -9
    /\ calc.cur.best.new_quantity.units.exp = -6

\* the label of s expressed in the unit of self._quantity
SnappedInBaseUnit(s) == Shift(s.text.mag, s.text.units.exp - s.quantity.units.exp)

\* C5: whenever a handler sets the bar for a positive scale, the length of
\* the bar in canvas pixels is desiredPixelLength * (snappedValue in the base
\* unit / worldLength), where worldLength = desiredPixelLength * scale.
C5_BarMatchesLabel ==
    [][(/\ viewer'.visible
        /\ vis'.scale.n > 0
        /\ \/ vis'.scale # vis.scale
           \/ vis'.text # vis.text
           \/ NAbs(vis'.node_scale) # NAbs(vis.node_scale))
        => NAbs(vis'.node_scale)
             = NDiv(NMul(NInt(target_length), SnappedInBaseUnit(vis')),
                    NMul(NInt(target_length), vis'.scale))]_vars

\* C5: in centimeters at zoom 1 the bar is 100 pixels long and labelled 1 m
C5_Witness ==
    /\ viewer.visible /\ viewer.unit = "cm" /\ viewer.zoom = NInt(1)
    /\ vis.scale = NInt(1)
    /\ vis.text = [mag |-> NInt(1), units |-> [base |-> "m", exp |-> 0]]
    /\ NAbs(vis.node_scale) = NInt(100)

\* what the scale bar shows
Shown(s) == <<s.node_scale, s.text>>

\* C6 as stated: while the bar is visible (and the zoom is valid) it shows
\* what a recomputation from the current zoom and unit gives.
C6_CacheIsInvisible ==
    (viewer.visible /\ viewer.zoom.n > 0 /\ vis.outcome = "ok"
        /\ vis.quantity = ParseUnit(viewer.unit))
        => Shown(vis) = Shown(_on_zoom_change(viewer, vis, TRUE))

\* C6 as amended: a zoom event on a visible bar either does exactly what the
\* handler without the cache does, or leaves the visual as it was, and then
\* the new scale is less than the tolerance away from the stored scale.
C6_CacheWithinTolerance ==
    [][(viewer.visible /\ viewer'.visible /\ viewer'.zoom # viewer.zoom
            /\ viewer'.zoom.n > 0)
        => \/ vis' = _on_zoom_change(viewer', Ready, TRUE)
           \/ /\ vis' = Ready
              /\ ScaleUnchanged(vis.scale, NDiv(NInt(1), viewer'.zoom))]_vars

\* C6: the zoom went from 1 to 5001/5000 and the bar was not redrawn
C6_Witness ==
    /\ viewer.visible /\ viewer.zoom = Num(5001, 5000, 0)
    /\ vis.scale = NInt(1)
    /\ Shown(vis) # Shown(_on_zoom_change(viewer, vis, TRUE))

\* C7: get_unit_registry is not called while the scale bar has never been
\* visible, and it is called at most once.
C7_RegistryLazyAndOnce ==
    /\ ~ever_visible => vis.registry_calls = 0
    /\ vis.registry_calls <= 1
    /\ (vis.unit_reg = None) = (vis.registry_calls = 0)

\* C7: the registry was instantiated, and a unit set while the bar is hidden
\* has been parsed with it
C7_Witness ==
    /\ ~viewer.visible /\ ever_visible
    /\ vis.registry_calls = 1
    /\ viewer.unit = "cm" /\ vis.quantity = ParseUnit("cm")

Distinct(actions) ==
    \A i, j \in DOMAIN actions : i # j => actions[i].text # actions[j].text

\* C8: neither the Plugins menu nor a submenu of it has two entries with the
\* same text.
C8_NoDuplicateEntries ==
    /\ Distinct(menu)
    /\ \A i \in DOMAIN menu : Distinct(menu[i].actions)

\* C9: whenever the bar is visible (and the zoom is valid), it shows the
\* result of _calculate_best_length for the selected unit and for the stored
\* scale, and the stored scale is less than the tolerance away from 1 / zoom.
C9_BoundedStaleness ==
    (viewer.visible /\ viewer.zoom.n > 0)
        => /\ ScaleUnchanged(vis.scale, NDiv(NInt(1), viewer.zoom))
           /\ LET best == _calculate_best_length(ParseUnit(viewer.unit),
                                                 NMul(vis.scale, NInt(target_length)))
              IN  /\ vis.text = best.new_quantity
                  /\ NAbs(vis.node_scale) = NDiv(best.new_length, vis.scale)

====
